---- MODULE Spec2Model ----
(***************************************************************************)
(* A state-machine model of MemGlance.py: load pslist.csv and netscan.csv, *)
(* build the process / connection digraph, render it with matplotlib and   *)
(* with pyvis.  Text is modelled as sequences of one-character strings so  *)
(* that the numeric coercion, the regular expression and the prefix tests  *)
(* are computed and not assumed.                                           *)
(***************************************************************************)
EXTENDS Integers, Sequences, FiniteSets

VARIABLES
    pslist_file,    \* volatility_output/pslist.csv as found on disk
    netscan_file,   \* volatility_output/netscan.csv as found on disk
    pslist_df,      \* the pslist DataFrame after coercion (sequence of rows)
    netscan_df,     \* the netscan DataFrame after coercion and filtering
    G,              \* the networkx DiGraph: node -> attrs, (u, v) -> attrs
    pc,             \* position of the script
    stdout,         \* the lines printed so far
    stderr,         \* the uncaught exception, "" when there is none
    exit_status,    \* -1 while running, then the process exit status
    files_read,     \* input files pd.read_csv was called on
    output_files    \* files written below output/

vars == << pslist_file, netscan_file, pslist_df, netscan_df, G, pc, stdout,
           stderr, exit_status, files_read, output_files >>

----------------------------------------------------------------------------
(* Bounds of the model *)

MaxPslistRows == 2

MaxNetscanRows == 2

----------------------------------------------------------------------------
(* Text *)

Digits == << "0", "1", "2", "3", "4", "5", "6", "7", "8", "9" >>

IsDigit(c) == \E d \in 1..10 : Digits[d] = c

DigitVal(c) == (CHOOSE d \in 1..10 : Digits[d] = c) - 1

RECURSIVE DecVal(_)
DecVal(s) ==
    IF s = << >> THEN 0
    ELSE 10 * DecVal(SubSeq(s, 1, Len(s) - 1)) + DigitVal(s[Len(s)])

AllDigits(s) == Len(s) > 0 /\ \A k \in 1..Len(s) : IsDigit(s[k])

\* str(n) for n >= 0, as used by the f-strings
RECURSIVE IntToStr(_)
IntToStr(n) ==
    IF n < 10 THEN << Digits[n + 1] >>
    ELSE IntToStr(n \div 10) \o << Digits[(n % 10) + 1] >>

\* str.startswith
StartsWith(s, p) == Len(s) >= Len(p) /\ SubSeq(s, 1, Len(p)) = p

\* pd.to_numeric(col, errors="coerce").fillna(0).astype(int) on one cell:
\* a cell that is not a number becomes NaN, NaN becomes 0
ToInt(cell) ==
    IF AllDigits(cell) THEN DecVal(cell)
    ELSE IF Len(cell) > 1 /\ cell[1] = "-" /\ AllDigits(Tail(cell))
         THEN 0 - DecVal(Tail(cell))
         ELSE 0

\* One \d+ of the pattern, greedy, starting at position i of s: the position
\* after the group, 0 when no digit stands at i.
RECURSIVE SkipDigits(_, _)
SkipDigits(s, i) ==
    IF i <= Len(s) /\ IsDigit(s[i]) THEN SkipDigits(s, i + 1) ELSE i

DigitGroup(s, i) ==
    IF i = 0 \/ i > Len(s) \/ ~IsDigit(s[i]) THEN 0 ELSE SkipDigits(s, i)

\* A literal \. at position i: the position after it, 0 when there is none.
Dot(s, i) == IF i = 0 \/ i > Len(s) \/ s[i] # "." THEN 0 ELSE i + 1

\* Python's $ (no MULTILINE): at the end of the string, or just before a
\* newline that is the last character of the string.
AtDollar(s, i) ==
    i # 0 /\ (i = Len(s) + 1 \/ (i = Len(s) /\ s[i] = "\n"))

\* Series.str.match(r'^\d+\.\d+\.\d+\.\d+$', na=False) on one cell
MatchesIPv4Pattern(s) ==
    LET a == DigitGroup(s, 1)
        b == DigitGroup(s, Dot(s, a))
        c == DigitGroup(s, Dot(s, b))
        d == DigitGroup(s, Dot(s, c))
    IN  AtDollar(s, d)

----------------------------------------------------------------------------
(* Python values used as graph keys: ints (PIDs) and strs (addresses)      *)

PyInt(n) == << "int", n >>

PyStr(s) == << "str", s >>

\* dict.update
DictUpdate(old, new) ==
    [k \in (DOMAIN old) \cup (DOMAIN new) |->
        IF k \in DOMAIN new THEN new[k] ELSE old[k]]

EmptyDict == [k \in {} |-> k]

----------------------------------------------------------------------------
(* networkx.DiGraph *)

EmptyGraph == [node |-> EmptyDict, edge |-> EmptyDict]

\* G.add_node(n, **attr): a new node gets attr, a known node is updated
add_node(g, n, attr) ==
    LET old == IF n \in DOMAIN g.node THEN g.node[n] ELSE EmptyDict
    IN  [g EXCEPT !.node =
            [k \in (DOMAIN g.node) \cup {n} |->
                IF k = n THEN DictUpdate(old, attr) ELSE g.node[k]]]

\* add_edge as it would be if a known edge kept its attributes
add_edge_keep_first(g, u, v, attr) ==
    LET e == << u, v >>
    IN  [node |-> [k \in (DOMAIN g.node) \cup {u, v} |->
                      IF k \in DOMAIN g.node THEN g.node[k] ELSE EmptyDict],
         edge |-> [k \in (DOMAIN g.edge) \cup {e} |->
                      IF k \in DOMAIN g.edge THEN g.edge[k] ELSE attr]]

\* G.add_edge(u, v, **attr): endpoints that are not nodes yet are created
\* with no attributes; the edge's attributes are updated
add_edge(g, u, v, attr) ==
    LET e   == << u, v >>
        old == IF e \in DOMAIN g.edge THEN g.edge[e] ELSE EmptyDict
    IN  [node |-> [k \in (DOMAIN g.node) \cup {u, v} |->
                      IF k \in DOMAIN g.node THEN g.node[k] ELSE EmptyDict],
         edge |-> [k \in (DOMAIN g.edge) \cup {e} |->
                      IF k = e THEN DictUpdate(old, attr) ELSE g.edge[k]]]

----------------------------------------------------------------------------
(* Input files *)

PslistColumns == {"PID", "PPID", "ImageFileName"}

NetscanColumns == {"Proto", "PID", "ForeignAddr", "ForeignPort"}

required_pslist_cols == {"PID", "PPID", "ImageFileName"}

required_netscan_cols == {"PID", "ForeignAddr", "ForeignPort"}

PsRow(pid, ppid, name) == [PID |-> pid, PPID |-> ppid, ImageFileName |-> name]

NetRow(proto, pid, addr, port) ==
    [Proto |-> proto, PID |-> pid, ForeignAddr |-> addr, ForeignPort |-> port]

Addr_8_8_8_8 == << "8", ".", "8", ".", "8", ".", "8" >>

Addr_10_0_0_2 == << "1", "0", ".", "0", ".", "0", ".", "2" >>

Addr_192_168_1_5 == << "1", "9", "2", ".", "1", "6", "8", ".", "1", ".", "5" >>

Addr_127_0_0_1 == << "1", "2", "7", ".", "0", ".", "0", ".", "1" >>

Addr_0_0_0_0 == << "0", ".", "0", ".", "0", ".", "0" >>

Addr_8_8_8_8_LF == Addr_8_8_8_8 \o << "\n" >>

Addr_Star == << "*" >>

\* Rows a pslist export can hold: a root process, a child, a second row for
\* PID 1 under another name, and a row whose PID and PPID are not numbers.
PslistRowPool ==
    { PsRow(<< "1" >>, << "0" >>, << "a" >>),
      PsRow(<< "2" >>, << "1" >>, << "b" >>),
      PsRow(<< "1" >>, << "2" >>, << "c" >>),
      PsRow(<< "-" >>, << "-" >>, << "d" >>),
      PsRow(<< "0" >>, << "0" >>, << "e" >>) }

\* Rows a netscan export can hold.
NetscanRowPool ==
    { NetRow("TCPv4", << "1" >>, Addr_8_8_8_8, << "8", "0" >>),
      NetRow("TCPv4", << "1" >>, Addr_8_8_8_8, << "4", "4", "3" >>),
      NetRow("TCPv4", << "1" >>, Addr_10_0_0_2, << "8", "0" >>),
      NetRow("TCPv4", << "2" >>, Addr_192_168_1_5, << "-" >>),
      NetRow("TCPv4", << "2" >>, Addr_127_0_0_1, << "8", "0" >>),
      NetRow("TCPv4", << "-" >>, Addr_8_8_8_8, << "8", "0" >>),
      NetRow("UDPv4", << "1" >>, Addr_8_8_8_8, << "5", "3" >>),
      NetRow("TCPv4", << "1" >>, Addr_0_0_0_0, << "0" >>),
      NetRow("TCPv4", << "1" >>, Addr_Star, << "0" >>),
      NetRow("TCPv4", << "2" >>, Addr_8_8_8_8_LF, << "8", "0" >>) }

SeqsUpTo(pool, n) == UNION { [1..k -> pool] : k \in 0..n }

File(status, columns, rows) ==
    [status |-> status, columns |-> columns, rows |-> rows]

\* What can stand at volatility_output/pslist.csv
PslistFiles ==
    { File("missing", {}, << >>), File("unparseable", {}, << >>) }
    \cup { File("ok", PslistColumns \ {c}, << >>) : c \in {"PPID", "ImageFileName"} }
    \cup { File("ok", PslistColumns, rows) :
               rows \in SeqsUpTo(PslistRowPool, MaxPslistRows) }

\* What can stand at volatility_output/netscan.csv
NetscanFiles ==
    { File("missing", {}, << >>), File("unparseable", {}, << >>) }
    \cup { File("ok", NetscanColumns \ {c}, << >>) : c \in {"ForeignPort", "Proto"} }
    \cup { File("ok", NetscanColumns, rows) :
               rows \in SeqsUpTo(NetscanRowPool, MaxNetscanRows) }

Init ==
    /\ pslist_file \in PslistFiles
    /\ netscan_file \in NetscanFiles
    /\ pslist_df = << >>
    /\ netscan_df = << >>
    /\ G = EmptyGraph
    /\ pc = "load_pslist"
    /\ stdout = << "pyvis version" >>
    /\ stderr = ""
    /\ exit_status = -1
    /\ files_read = {}
    /\ output_files = {}

----------------------------------------------------------------------------
(* Loading *)

\* ErrorExit as it would be with the exit(1) left out: the script goes on
ErrorPrintOnly(msgs) ==
    /\ stdout' = stdout \o msgs
    /\ exit_status' = exit_status
    /\ pc' = IF pc = "load_pslist" THEN "load_netscan" ELSE "add_processes"

\* print(...); exit(1) of the except blocks
ErrorExit(msgs) ==
    /\ stdout' = stdout \o msgs
    /\ exit_status' = 1
    /\ pc' = "exited"

\* Lines 29-30: PID and PPID become integers
CoercePslistRow(r) ==
    [PID |-> ToInt(r.PID), PPID |-> ToInt(r.PPID), ImageFileName |-> r.ImageFileName]

\* Lines 47-48: PID and ForeignPort become integers
CoerceNetscanRow(r) ==
    [Proto |-> r.Proto, PID |-> ToInt(r.PID), ForeignAddr |-> r.ForeignAddr,
     ForeignPort |-> ToInt(r.ForeignPort)]

\* The boolean mask of lines 50-52, for one row
KeepNetscanRow(r) ==
    /\ r.Proto = "TCPv4"
    /\ MatchesIPv4Pattern(r.ForeignAddr)
    /\ r.ForeignAddr # Addr_0_0_0_0

\* DataFrame[mask]: the rows the mask keeps, in file order
FilterNetscan(rows) == SelectSeq(rows, KeepNetscanRow)

\* LoadPslist as it would be without the check of the required columns
LoadPslistUnvalidated ==
    /\ pc = "load_pslist"
    /\ files_read' = files_read \cup {"pslist.csv"}
    /\ UNCHANGED << pslist_file, netscan_file, netscan_df, G, stderr, output_files >>
    /\ IF pslist_file.status = "missing"
       THEN /\ ErrorExit(<< "Error: pslist.csv not found" >>)
            /\ UNCHANGED pslist_df
       ELSE IF pslist_file.status = "unparseable"
       THEN /\ ErrorExit(<< "Error loading pslist.csv" >>)
            /\ UNCHANGED pslist_df
       ELSE /\ pslist_df' = [k \in DOMAIN pslist_file.rows |->
                                CoercePslistRow(pslist_file.rows[k])]
            /\ stdout' = Append(stdout, "pslist.csv columns")
            /\ pc' = "load_netscan"
            /\ UNCHANGED exit_status

\* Lines 20-36
LoadPslist ==
    /\ pc = "load_pslist"
    /\ files_read' = files_read \cup {"pslist.csv"}
    /\ UNCHANGED << pslist_file, netscan_file, netscan_df, G, stderr, output_files >>
    /\ IF pslist_file.status = "missing"
       THEN /\ ErrorExit(<< "Error: pslist.csv not found" >>)
            /\ UNCHANGED pslist_df
       ELSE IF pslist_file.status = "unparseable"
       THEN /\ ErrorExit(<< "Error loading pslist.csv" >>)
            /\ UNCHANGED pslist_df
       ELSE IF ~(required_pslist_cols \subseteq pslist_file.columns)
       THEN /\ ErrorExit(<< "pslist.csv columns", "Error loading pslist.csv" >>)
            /\ UNCHANGED pslist_df
       ELSE /\ pslist_df' = [k \in DOMAIN pslist_file.rows |->
                                CoercePslistRow(pslist_file.rows[k])]
            /\ stdout' = Append(stdout, "pslist.csv columns")
            /\ pc' = "load_netscan"
            /\ UNCHANGED exit_status

\* Lines 38-58.  Proto is not among the required columns; when the file has
\* none, netscan_df["Proto"] raises KeyError, which the except block catches.
LoadNetscan ==
    /\ pc = "load_netscan"
    /\ files_read' = files_read \cup {"netscan.csv"}
    /\ UNCHANGED << pslist_file, netscan_file, pslist_df, G, stderr, output_files >>
    /\ IF netscan_file.status = "missing"
       THEN /\ ErrorExit(<< "Error: netscan.csv not found" >>)
            /\ UNCHANGED netscan_df
       ELSE IF netscan_file.status = "unparseable"
       THEN /\ ErrorExit(<< "Error loading netscan.csv" >>)
            /\ UNCHANGED netscan_df
       ELSE IF \/ ~(required_netscan_cols \subseteq netscan_file.columns)
               \/ "Proto" \notin netscan_file.columns
       THEN /\ ErrorExit(<< "netscan.csv columns", "Error loading netscan.csv" >>)
            /\ UNCHANGED netscan_df
       ELSE /\ netscan_df' = FilterNetscan([k \in DOMAIN netscan_file.rows |->
                                CoerceNetscanRow(netscan_file.rows[k])])
            /\ stdout' = Append(stdout, "netscan.csv columns")
            /\ pc' = "add_processes"
            /\ UNCHANGED exit_status

----------------------------------------------------------------------------
(* Graph construction *)

\* netscan_df["PID"].values
NetscanPids(ndf) == { ndf[k].PID : k \in DOMAIN ndf }

\* pslist_df["PID"].values
PslistPids(pdf) == { pdf[k].PID : k \in DOMAIN pdf }

\* Line 81
IPColor(ip) ==
    IF ~StartsWith(ip, << "1", "9", "2", ".", "1", "6", "8", "." >>)
       /\ ~StartsWith(ip, << "1", "0", "." >>)
    THEN "orange" ELSE "lightgreen"

\* ProcessColor as it would be if only external connections counted
ProcessColorExternalOnly(pid, ndf) ==
    IF \E k \in DOMAIN ndf : ndf[k].PID = pid /\ IPColor(ndf[k].ForeignAddr) = "orange"
    THEN "red" ELSE "lightblue"

\* Line 68
ProcessColor(pid, ndf) ==
    IF pid \in NetscanPids(ndf) THEN "red" ELSE "lightblue"

\* f"{name} ({pid})"
ProcessLabel(name, pid) == name \o << " ", "(" >> \o IntToStr(pid) \o << ")" >>

\* HasParentEdge as it would be without the test for PPID 0
HasParentEdgeZeroAllowed(row, pdf) == row.PPID \in PslistPids(pdf)

\* Line 70
HasParentEdge(row, pdf) == row.PPID \in PslistPids(pdf) /\ row.PPID # 0

\* Lines 65-71: the body of the pslist loop, for one row
AddProcessRow(g, row, pdf, ndf) ==
    LET pid == row.PID
        g1  == add_node(g, PyInt(pid),
                        [label |-> ProcessLabel(row.ImageFileName, pid),
                         color |-> ProcessColor(pid, ndf),
                         shape |-> "circle"])
    IN  IF HasParentEdge(row, pdf)
        THEN add_edge(g1, PyInt(row.PPID), PyInt(pid), [style |-> "solid"])
        ELSE g1

\* f"Port: {row['ForeignPort']}"
PortLabel(port) == << "P", "o", "r", "t", ":", " " >> \o IntToStr(port)

\* Line 78
SkipConnection(pid, ip) == pid = 0 \/ ip = << >>

\* Lines 75-83: the body of the netscan loop, for one row
AddConnectionRow(g, row) ==
    LET pid == row.PID
        ip  == row.ForeignAddr
    IN  IF SkipConnection(pid, ip) THEN g
        ELSE add_edge(add_node(g, PyStr(ip),
                               [label |-> ip, color |-> IPColor(ip), shape |-> "box"]),
                      PyInt(pid), PyStr(ip),
                      [style |-> "dashed", label |-> PortLabel(row.ForeignPort)])

\* for _, row in pslist_df.iterrows(): rows in file order
RECURSIVE ProcessLoop(_, _, _, _)
ProcessLoop(g, rows, pdf, ndf) ==
    IF rows = << >> THEN g
    ELSE ProcessLoop(AddProcessRow(g, Head(rows), pdf, ndf), Tail(rows), pdf, ndf)

\* for _, row in netscan_df.iterrows(): rows in file order
RECURSIVE ConnectionLoop(_, _)
ConnectionLoop(g, rows) ==
    IF rows = << >> THEN g
    ELSE ConnectionLoop(AddConnectionRow(g, Head(rows)), Tail(rows))

\* Lines 63-71
AddProcessNodes ==
    /\ pc = "add_processes"
    /\ G' = ProcessLoop(G, pslist_df, pslist_df, netscan_df)
    /\ pc' = "add_connections"
    /\ UNCHANGED << pslist_file, netscan_file, pslist_df, netscan_df, stdout, stderr,
                    exit_status, files_read, output_files >>

\* Lines 73-83
AddNetworkConnections ==
    /\ pc = "add_connections"
    /\ G' = ConnectionLoop(G, netscan_df)
    /\ pc' = "static_visualization"
    /\ UNCHANGED << pslist_file, netscan_file, pslist_df, netscan_df, stdout, stderr,
                    exit_status, files_read, output_files >>

----------------------------------------------------------------------------
(* Rendering *)

\* An exception nothing catches: traceback on stderr, exit status 1
Uncaught(exc) ==
    /\ stderr' = exc
    /\ exit_status' = 1
    /\ pc' = "crashed"

\* Line 88: G.nodes[node]["color"] for every node
NodeColorsReadable(g) == \A n \in DOMAIN g.node : "color" \in DOMAIN g.node[n]

\* Line 104: data["label"], data["color"], data["shape"] for every node
NodeAttrsReadable(g) ==
    \A n \in DOMAIN g.node : {"label", "color", "shape"} \subseteq DOMAIN g.node[n]

\* Line 106: data["style"] for every edge
EdgeStylesReadable(g) == \A e \in DOMAIN g.edge : "style" \in DOMAIN g.edge[e]

\* Lines 85-99
StaticVisualization ==
    /\ pc = "static_visualization"
    /\ UNCHANGED << pslist_file, netscan_file, pslist_df, netscan_df, G, stdout,
                    files_read >>
    /\ IF NodeColorsReadable(G)
       THEN /\ output_files' = output_files \cup {"network_graph.png"}
            /\ pc' = "interactive_visualization"
            /\ UNCHANGED << stderr, exit_status >>
       ELSE /\ Uncaught("KeyError")
            /\ UNCHANGED output_files

\* Lines 101-109, net.show() returning normally
InteractiveShow ==
    /\ pc = "interactive_visualization"
    /\ UNCHANGED << pslist_file, netscan_file, pslist_df, netscan_df, G, stdout,
                    files_read >>
    /\ IF NodeAttrsReadable(G) /\ EdgeStylesReadable(G)
       THEN /\ output_files' = output_files \cup {"network_graph.html"}
            /\ pc' = "report"
            /\ UNCHANGED << stderr, exit_status >>
       ELSE /\ Uncaught("KeyError")
            /\ UNCHANGED output_files

\* Lines 101-114, net.show() raising: the except block prints a warning and
\* writes the HTML itself
InteractiveShowFails ==
    /\ pc = "interactive_visualization"
    /\ NodeAttrsReadable(G) /\ EdgeStylesReadable(G)
    /\ stdout' = Append(stdout, "Warning: pyvis show failed")
    /\ output_files' = output_files \cup {"network_graph.html"}
    /\ pc' = "report"
    /\ UNCHANGED << pslist_file, netscan_file, pslist_df, netscan_df, G, stderr,
                    exit_status, files_read >>

\* Line 116 and the end of the script
Report ==
    /\ pc = "report"
    /\ stdout' = Append(stdout, "Graphs saved")
    /\ exit_status' = 0
    /\ pc' = "done"
    /\ UNCHANGED << pslist_file, netscan_file, pslist_df, netscan_df, G, stderr,
                    files_read, output_files >>

Next ==
    \/ LoadPslist
    \/ LoadNetscan
    \/ AddProcessNodes
    \/ AddNetworkConnections
    \/ StaticVisualization
    \/ InteractiveShow
    \/ InteractiveShowFails
    \/ Report

Spec == Init /\ [][Next]_vars

----------------------------------------------------------------------------
(* Vocabulary of the properties *)

\* Graph construction is over
GraphBuilt ==
    pc \in {"static_visualization", "interactive_visualization", "report", "done",
            "crashed"}

Printed(msg) == \E k \in DOMAIN stdout : stdout[k] = msg

HasAttr(n, a) == n \in DOMAIN G.node /\ a \in DOMAIN G.node[n]

NodeColor(n) == G.node[n]["color"]

DashedEdges == { e \in DOMAIN G.edge : G.edge[e]["style"] = "dashed" }

SolidEdges == { e \in DOMAIN G.edge : G.edge[e]["style"] = "solid" }

\* Nodes drawn as boxes: the IP nodes
BoxNodes == { n \in DOMAIN G.node : HasAttr(n, "shape") /\ G.node[n]["shape"] = "box" }

\* Dashed edges leaving the process node of pid
ConnectionsOf(pid) == { e \in DashedEdges : e[1] = PyInt(pid) /\ e[2] \in BoxNodes }

\* The text between the dots
RECURSIVE SplitDots(_)
SplitDots(s) ==
    IF \A i \in 1..Len(s) : s[i] # "." THEN << s >>
    ELSE LET i == CHOOSE j \in 1..Len(s) :
                     s[j] = "." /\ \A h \in 1..(j - 1) : s[h] # "."
         IN  << SubSeq(s, 1, i - 1) >> \o SplitDots(SubSeq(s, i + 1, Len(s)))

\* Four groups of digits separated by dots, and nothing else
IsDottedQuad(s) ==
    LET p == SplitDots(s) IN Len(p) = 4 /\ \A k \in 1..4 : AllDigits(p[k])

\* A private-range (RFC 1918) or loopback address
IsLocalAddress(s) ==
    /\ IsDottedQuad(s)
    /\ LET p == SplitDots(s)
           a == DecVal(p[1])
           b == DecVal(p[2])
       IN  \/ a = 10
           \/ a = 127
           \/ a = 192 /\ b = 168
           \/ a = 172 /\ b \in 16..31

\* The netscan rows of the file that are TCPv4 connections to a dotted quad
\* other than 0.0.0.0 made by a process with a nonzero PID
IsConnectionRow(r) ==
    /\ r.Proto = "TCPv4"
    /\ IsDottedQuad(r.ForeignAddr)
    /\ r.ForeignAddr # Addr_0_0_0_0
    /\ ToInt(r.PID) # 0

BothLoaded == pc \notin {"load_pslist", "load_netscan", "exited"}

PslistFails ==
    pslist_file.status # "ok" \/ ~(required_pslist_cols \subseteq pslist_file.columns)

NetscanFails ==
    netscan_file.status # "ok" \/ ~(required_netscan_cols \subseteq netscan_file.columns)

ErrorPrinted ==
    \/ Printed("Error: pslist.csv not found") \/ Printed("Error loading pslist.csv")
    \/ Printed("Error: netscan.csv not found") \/ Printed("Error loading netscan.csv")

----------------------------------------------------------------------------
(* C1 *)

\* C1: after graph construction every pslist process is red if and only if
\* a dashed edge leads from its node to an IP node, and lightblue otherwise.
C1_RedIffConnectionEdge ==
    GraphBuilt =>
        \A k \in DOMAIN pslist_df :
            LET pid == pslist_df[k].PID
            IN  /\ NodeColor(PyInt(pid)) = "red" <=> ConnectionsOf(pid) # {}
                /\ ConnectionsOf(pid) = {} => NodeColor(PyInt(pid)) = "lightblue"

----------------------------------------------------------------------------
(* C2 *)

\* C2 as stated, for the processes that have connection edges: a red one
\* has a dashed edge to an orange IP node, and one whose connections all go
\* to lightgreen IP nodes is not red.
C2_RedOnlyIfExternal ==
    GraphBuilt =>
        \A k \in DOMAIN pslist_df :
            LET pid == pslist_df[k].PID
            IN  /\ (NodeColor(PyInt(pid)) = "red" /\ ConnectionsOf(pid) # {}) =>
                      \E e \in ConnectionsOf(pid) : NodeColor(e[2]) = "orange"
                /\ (ConnectionsOf(pid) # {}
                    /\ \A e \in ConnectionsOf(pid) : NodeColor(e[2]) = "lightgreen")
                      => NodeColor(PyInt(pid)) # "red"

\* C2 (amended): a process node is red exactly when its PID occurs in a row of
\* the filtered netscan table, whatever the colour of the address; so a
\* process with a connection edge is red also when all its connections go to
\* lightgreen addresses.
C2_RedIffInFilteredNetscan ==
    GraphBuilt =>
        \A k \in DOMAIN pslist_df :
            LET pid == pslist_df[k].PID
            IN  /\ NodeColor(PyInt(pid)) = "red" <=>
                      \E j \in DOMAIN netscan_df : netscan_df[j].PID = pid
                /\ NodeColor(PyInt(pid)) # "red" => NodeColor(PyInt(pid)) = "lightblue"
                /\ ConnectionsOf(pid) # {} => NodeColor(PyInt(pid)) = "red"

\* A red process all of whose connections go to lightgreen addresses
C2_Witness ==
    /\ GraphBuilt
    /\ \E k \in DOMAIN pslist_df :
           LET pid == pslist_df[k].PID
           IN  /\ NodeColor(PyInt(pid)) = "red"
               /\ ConnectionsOf(pid) # {}
               /\ \A e \in ConnectionsOf(pid) : NodeColor(e[2]) = "lightgreen"

----------------------------------------------------------------------------
(* C3 *)

\* C3: once both files are loaded the run does not end before both
\* renderers have written their file, and it ends with both files written.
C3_LoadedRunCompletes ==
    BothLoaded =>
        /\ pc # "crashed"
        /\ pc = "done" =>
              output_files = {"network_graph.png", "network_graph.html"}

----------------------------------------------------------------------------
(* C4 *)

\* What holds of a run whose input cannot be loaded: no graph, no output
\* file, and once the script has stopped, an error line and exit status 1
StoppedBeforeGraph ==
    /\ G = EmptyGraph
    /\ output_files = {}
    /\ ~Printed("Graphs saved")
    /\ pc = "exited" => exit_status = 1 /\ ErrorPrinted /\ stderr = ""

\* C4: when pslist.csv or netscan.csv is missing, unparseable or lacks a
\* required column, the script prints an error and exits with status 1
\* before any graph is built and writes neither output file; when it is
\* pslist.csv that fails, netscan.csv is never read.
C4_LoadFailureExits ==
    /\ PslistFails =>
          /\ pc \in {"load_pslist", "exited"}
          /\ "pslist.csv" \in files_read => pc = "exited"
          /\ "netscan.csv" \notin files_read
          /\ StoppedBeforeGraph
    /\ (NetscanFails /\ ~PslistFails) =>
          /\ pc \in {"load_pslist", "load_netscan", "exited"}
          /\ "netscan.csv" \in files_read => pc = "exited"
          /\ StoppedBeforeGraph

\* A run that has exited on a pslist.csv without one of its columns
C4_Witness ==
    /\ pc = "exited"
    /\ pslist_file.status = "ok"
    /\ ~(required_pslist_cols \subseteq pslist_file.columns)
    /\ Printed("Error loading pslist.csv")

----------------------------------------------------------------------------
(* C5 *)

\* C5 as stated: no failure is followed by a path that carries the run on
\* to the final "Graphs saved".
C5_NoFailureThenCompletion ==
    ~(Printed("Warning: pyvis show failed") /\ Printed("Graphs saved"))

\* C5 (amended): a failure while loading, building the graph or rendering
\* the static image ends the run: exit status 1, no "Graphs saved" and no
\* HTML file.  The one recovery is in the interactive rendering: when
\* net.show() fails the script prints a warning, writes the HTML itself and
\* goes on to "Graphs saved".
C5_OnlyShowFailureRecovers ==
    /\ (ErrorPrinted \/ stderr # "") =>
          /\ pc \in {"exited", "crashed"}
          /\ exit_status = 1
          /\ ~Printed("Graphs saved")
          /\ "network_graph.html" \notin output_files
    /\ Printed("Warning: pyvis show failed") =>
          /\ pc \in {"report", "done"}
          /\ "network_graph.html" \in output_files
          /\ ~ErrorPrinted /\ stderr = ""
    /\ pc = "done" => Printed("Graphs saved") /\ exit_status = 0

\* A run that completed although net.show() failed
C5_Witness ==
    /\ pc = "done"
    /\ Printed("Warning: pyvis show failed")
    /\ Printed("Graphs saved")

----------------------------------------------------------------------------
(* C6 *)

\* The parent-child pairs of the file: PPID and PID of a row, after
\* coercion, with a nonzero PPID that is the PID of some row
ParentChildPairs ==
    LET rows == pslist_file.rows
    IN  { << PyInt(ToInt(rows[k].PPID)), PyInt(ToInt(rows[k].PID)) >> :
            k \in { h \in DOMAIN rows :
                      /\ ToInt(rows[h].PPID) # 0
                      /\ \E j \in DOMAIN rows : ToInt(rows[j].PID) = ToInt(rows[h].PPID) } }

\* C6: after graph construction the solid edges are exactly the pairs
\* P -> C of a pslist row with PID C and PPID P, P nonzero and the PID of
\* some row, wherever that row stands in the file; no solid edge leaves
\* node 0.
C6_SolidEdgesAreParentChildPairs ==
    GraphBuilt =>
        /\ SolidEdges = ParentChildPairs
        /\ \A e \in SolidEdges : e[1] # PyInt(0)

\* A solid edge whose parent row stands after the child's row in the file
C6_Witness ==
    /\ GraphBuilt
    /\ \E c, p \in DOMAIN pslist_df :
          /\ c < p
          /\ pslist_df[c].PPID = pslist_df[p].PID
          /\ << PyInt(pslist_df[p].PID), PyInt(pslist_df[c].PID) >> \in SolidEdges

----------------------------------------------------------------------------
(* C7 *)

\* C7: every IP (box) node and every dashed edge stems from a netscan row
\* with Proto TCPv4, a ForeignAddr that is a dotted quad of digit groups
\* other than 0.0.0.0, and a PID that is nonzero after coercion.
C7_ConnectionsStemFromValidRows ==
    GraphBuilt =>
        LET rows == netscan_file.rows
        IN  /\ \A n \in BoxNodes :
                  \E k \in DOMAIN rows :
                      IsConnectionRow(rows[k]) /\ n = PyStr(rows[k].ForeignAddr)
            /\ \A e \in DashedEdges :
                  \E k \in DOMAIN rows :
                      /\ IsConnectionRow(rows[k])
                      /\ e = << PyInt(ToInt(rows[k].PID)), PyStr(rows[k].ForeignAddr) >>

----------------------------------------------------------------------------
(* C8 *)

\* C8: an IP node is orange if and only if its address is not a local
\* (private-range or loopback) address; an IP node with a local address is
\* lightgreen.
C8_OrangeIffNotLocal ==
    GraphBuilt =>
        \A n \in BoxNodes :
            /\ NodeColor(n) = "orange" <=> ~IsLocalAddress(n[2])
            /\ IsLocalAddress(n[2]) => NodeColor(n) = "lightgreen"

----------------------------------------------------------------------------
(* C9 *)

\* The last row of the pslist table with the PID of row k
LastWithPid(k) ==
    \A h \in DOMAIN pslist_df : pslist_df[h].PID = pslist_df[k].PID => h <= k

\* The last row of the filtered netscan table with the PID and address of row k
LastWithPair(k) ==
    \A h \in DOMAIN netscan_df :
        (netscan_df[h].PID = netscan_df[k].PID
         /\ netscan_df[h].ForeignAddr = netscan_df[k].ForeignAddr) => h <= k

\* C9: the last row in file order decides.  The label of a process node is
\* that of the last pslist row with its PID; the filtered netscan rows with
\* one (PID, ForeignAddr), PID nonzero, give one dashed edge labelled with
\* the ForeignPort of the last of them; the dashed edges are as many as the
\* distinct (PID, ForeignAddr) pairs of the filtered rows with nonzero PID.
C9_LastRowWins ==
    GraphBuilt =>
        /\ \A k \in DOMAIN pslist_df :
              LastWithPid(k) =>
                  G.node[PyInt(pslist_df[k].PID)]["label"] =
                      pslist_df[k].ImageFileName \o << " ", "(" >>
                          \o IntToStr(pslist_df[k].PID) \o << ")" >>
        /\ \A k \in DOMAIN netscan_df :
              (netscan_df[k].PID # 0 /\ LastWithPair(k)) =>
                  LET e == << PyInt(netscan_df[k].PID), PyStr(netscan_df[k].ForeignAddr) >>
                  IN  /\ e \in DashedEdges
                      /\ G.edge[e]["label"] =
                            << "P", "o", "r", "t", ":", " " >>
                                \o IntToStr(netscan_df[k].ForeignPort)
        /\ Cardinality(DashedEdges) =
              Cardinality({ << netscan_df[k].PID, netscan_df[k].ForeignAddr >> :
                              k \in { h \in DOMAIN netscan_df : netscan_df[h].PID # 0 } })

\* Two filtered netscan rows with one (PID, ForeignAddr) and different
\* ports, and two pslist rows with one PID and different names
C9_Witness ==
    /\ GraphBuilt
    /\ \E h, k \in DOMAIN netscan_df :
          /\ h < k
          /\ netscan_df[h].PID = netscan_df[k].PID /\ netscan_df[k].PID # 0
          /\ netscan_df[h].ForeignAddr = netscan_df[k].ForeignAddr
          /\ netscan_df[h].ForeignPort # netscan_df[k].ForeignPort
    /\ \E h, k \in DOMAIN pslist_df :
          /\ h < k
          /\ pslist_df[h].PID = pslist_df[k].PID
          /\ pslist_df[h].ImageFileName # pslist_df[k].ImageFileName

----------------------------------------------------------------------------
(* C10 *)

\* C10: when rendering starts every node has a label, a color and a shape
\* (circle and red or lightblue; box and orange or lightgreen) and every
\* edge has a style, solid or dashed.
C10_AttributesComplete ==
    pc = "static_visualization" =>
        /\ \A n \in DOMAIN G.node :
              /\ DOMAIN G.node[n] = {"label", "color", "shape"}
              /\ \/ G.node[n]["shape"] = "circle"
                    /\ G.node[n]["color"] \in {"red", "lightblue"}
                 \/ G.node[n]["shape"] = "box"
                    /\ G.node[n]["color"] \in {"orange", "lightgreen"}
        /\ \A e \in DOMAIN G.edge :
              /\ "style" \in DOMAIN G.edge[e]
              /\ G.edge[e]["style"] \in {"solid", "dashed"}

====
